---- MODULE Spec2Model ----
(***************************************************************************)
(* A model of RAiDER's geodesy utilities (tools/RAiDER/utilFcns.py):       *)
(* the ENU -> ECEF rotation, the shape and line-of-sight validators, the   *)
(* ray samplers makePoints1D / makePoints3D and the query-point writer     *)
(* writePnts2HDF5.                                                         *)
(*                                                                         *)
(* Arrays are numpy arrays in C order: a shape and the flat buffer.        *)
(* max_len and stepSize are binary floating-point numbers of Prec          *)
(* significant bits (Prec stands for the 53 bits of a double): the         *)
(* quotient, difference and remainder that decide the two lengths of the   *)
(* ray sampler are rounded to nearest-even as the hardware rounds them.    *)
(* Sample coordinates are exact rationals, held as numerators over the     *)
(* denominator of stepSize.                                                *)
(***************************************************************************)
EXTENDS Integers, Sequences, FiniteSets, TLC

VARIABLES op, args, ret, pc, fs, exc

vars == <<op, args, ret, pc, fs, exc>>

(***************************************************************************)
(* Bounds of the model.                                                    *)
(***************************************************************************)
\* significant bits of a floating-point number
Prec == 4
\* largest extent of a grid axis, and largest number of ground pixels, of the
\* ray samplers' inputs
MaxDim == 3

(***************************************************************************)
(* numpy arrays                                                            *)
(***************************************************************************)
\* np.prod(shape)
Prod(shape) ==
    LET upto[i \in 0..Len(shape)] == IF i = 0 THEN 1 ELSE shape[i] * upto[i - 1]
    IN  upto[Len(shape)]

\* the C-order stride of axis i: the number of elements under one index
Stride(shape, i) == Prod(SubSeq(shape, i + 1, Len(shape)))

\* the C-order offset of a 0-based index tuple (leading indices of shape)
Ravel(idx, shape) ==
    LET upto[i \in 0..Len(idx)] ==
            IF i = 0 THEN 0
            ELSE idx[i] * Stride(SubSeq(shape, 1, Len(idx)), i) + upto[i - 1]
    IN  upto[Len(idx)]

\* the 0-based index tuple of a C-order offset
Unravel(n, shape) ==
    [i \in 1..Len(shape) |-> (n \div Stride(shape, i)) % shape[i]]

Array(shape, flat) == [kind |-> "array", shape |-> shape, flat |-> flat]

\* a[idx] for a full index tuple
At(a, idx) == a.flat[1 + Ravel(idx, a.shape)]

\* a[idx] for a leading index tuple: the sub-array under it
Sub(a, idx) ==
    LET rest == SubSeq(a.shape, Len(idx) + 1, Len(a.shape))
        base == Ravel(idx, a.shape) * Prod(rest)
    IN  Array(rest, [n \in 1..Prod(rest) |-> a.flat[base + n]])

Indices(shape) == {Unravel(n, shape) : n \in 0..(Prod(shape) - 1)}

NoValue == [kind |-> "None", shape |-> <<>>, flat |-> <<>>]

Ok(v) == [err |-> "ok", val |-> v]
Raise(e) == [err |-> e, val |-> NoValue]
Pending == [err |-> "pending", val |-> NoValue]

(***************************************************************************)
(* Floating-point numbers m * 2^e, 2^(Prec-1) <= m < 2^Prec, or zero.      *)
(***************************************************************************)
Pow2(n) == 2 ^ n

Float(m, e) == [m |-> m, e |-> e]
FZero == Float(0, 0)

Num(x) == IF x.e >= 0 THEN x.m * Pow2(x.e) ELSE x.m
Den(x) == IF x.e >= 0 THEN 1 ELSE Pow2(-x.e)

\* the exponent e with 2^(Prec-1) <= (n/d) / 2^e < 2^Prec
ExpOf(n, d) ==
    CHOOSE e \in (-2 * Prec)..Prec :
        LET a == IF e >= 0 THEN n ELSE n * Pow2(-e)
            b == IF e >= 0 THEN d * Pow2(e) ELSE d
        IN  Pow2(Prec - 1) * b <= a /\ a < Pow2(Prec) * b

\* the rational n/d >= 0 rounded to nearest, ties to even
Round(n, d) ==
    IF n = 0 THEN FZero
    ELSE LET e == ExpOf(n, d)
             a == IF e >= 0 THEN n ELSE n * Pow2(-e)
             b == IF e >= 0 THEN d * Pow2(e) ELSE d
             q == a \div b
             r == a % b
             m == IF 2 * r > b \/ (2 * r = b /\ q % 2 = 1) THEN q + 1 ELSE q
         IN  IF m = Pow2(Prec) THEN Float(Pow2(Prec - 1), e + 1) ELSE Float(m, e)

FDiv(x, y) == Round(Num(x) * Den(y), Den(x) * Num(y))
FSub(x, y) == Round(Num(x) * Den(y) - Num(y) * Den(x), Den(x) * Den(y))
\* C fmod: the exact remainder, always representable
FMod(x, y) == Round((Num(x) * Den(y)) % (Num(y) * Den(x)), Den(x) * Den(y))
Floor(x) == Num(x) \div Den(x)
Ceil(x) == -((-Num(x)) \div Den(x))
\* x - y > 1/2, for y an integer
FracAboveHalf(x, y) == 2 * (Num(x) - y * Den(x)) > Den(x)

\* Python's float x // y for x, y > 0 (float_divmod)
FloorDiv(x, y) ==
    LET mod == FMod(x, y)
        div == FDiv(FSub(x, mod), y)
        floordiv == Floor(div)
    IN  IF div = FZero THEN 0
        ELSE IF FracAboveHalf(div, floordiv) THEN floordiv + 1 ELSE floordiv

(***************************************************************************)
(* The ray samplers                                                        *)
(***************************************************************************)
\* Npts = int(max_len//stepSize) + [1 if max_len % stepSize != 0. else 0][0]
NptsOf(max_len, stepSize) ==
    FloorDiv(max_len, stepSize) + (IF FMod(max_len, stepSize) # FZero THEN 1 ELSE 0)

\* len(np.arange(0, stop, step)) = ceil((stop - 0)/step), the quotient a float
ArangeLen(stop, step) == Ceil(FDiv(stop, step))

\* np.arange(0, max_len, stepSize): element k is k*stepSize,
\* here its numerator over Den(stepSize)
Basespace(max_len, stepSize) ==
    [j \in 1..ArangeLen(max_len, stepSize) |-> (j - 1) * Num(stepSize)]

\* dst[...] = src for 1-D src of length n and a destination of length npts:
\* numpy broadcasts a length-1 source, and refuses other lengths
CanAssign(n, npts) == n = npts \/ n = 1
Assigned(src, npts) == [j \in 1..npts |-> IF Len(src) = 1 THEN src[1] ELSE src[j]]

\* Rays_SP[k3] + basespace*Rays_SLV[k3]
RayRow(sp, slv, base, stepSize) ==
    [j \in 1..Len(base) |-> sp * Den(stepSize) + base[j] * slv]

makePoints1D(max_len, Rays_SP, Rays_SLV, stepSize) ==
    LET Npts == NptsOf(max_len, stepSize)
        basespace == Basespace(max_len, stepSize)
        row(k3) == RayRow(At(Rays_SP, <<k3>>), At(Rays_SLV, <<k3>>), basespace, stepSize)
    IN  IF ~CanAssign(Len(basespace), Npts) THEN Raise("ValueError")
        ELSE Ok(Array(<<3, Npts>>,
                      [n \in 1..(3 * Npts) |->
                          Assigned(row((n - 1) \div Npts), Npts)[1 + ((n - 1) % Npts)]]))

\* numpy's shape of a*b for 1-D operands of lengths n and l (-1: not broadcastable)
BroadcastLen(n, l) == IF n = l \/ l = 1 THEN n ELSE IF n = 1 THEN l ELSE -1

\* Rays_SP[k1, k2, k2a, k3] + basespace*Rays_SLV[k1, k2, k2a, k3], idx the four
\* indices, l the length of what they select (1 for a scalar)
RayCell_otherPixel(Rays_SP, Rays_SLV, basespace, stepSize, idx, l) ==
    LET n == Len(basespace)
        sp == Sub(Rays_SP, idx).flat
        slv == Sub(Rays_SLV, <<0, 0, 0, idx[4]>>).flat
    IN  [t \in 1..BroadcastLen(n, l) |->
            sp[IF l = 1 THEN 1 ELSE t] * Den(stepSize)
            + basespace[IF n = 1 THEN 1 ELSE t] * slv[IF l = 1 THEN 1 ELSE t]]

RayCell(Rays_SP, Rays_SLV, basespace, stepSize, idx, l) ==
    LET n == Len(basespace)
        sp == Sub(Rays_SP, idx).flat
        slv == Sub(Rays_SLV, idx).flat
    IN  [t \in 1..BroadcastLen(n, l) |->
            sp[IF l = 1 THEN 1 ELSE t] * Den(stepSize)
            + basespace[IF n = 1 THEN 1 ELSE t] * slv[IF l = 1 THEN 1 ELSE t]]

makePoints3D(max_len, Rays_SP, Rays_SLV, stepSize) ==
    LET Npts == NptsOf(max_len, stepSize)
        shp == Rays_SP.shape
        basespace == Basespace(max_len, stepSize)
    IN  \* nz = Rays_SP.shape[2]
        IF Len(shp) < 3 THEN Raise("IndexError")
        \* Rays_SP[k1, k2, k2a, k3]: too many indices for a 3-D array
        ELSE IF Len(shp) = 3 THEN Raise("IndexError")
        ELSE
          LET nrow == shp[1]
              ncol == shp[2]
              nz == shp[3]
              \* what Rays_SP[k1, k2, k2a, k3] selects: a scalar, or a vector
              l == Prod(SubSeq(shp, 5, Len(shp)))
              vlen == BroadcastLen(Len(basespace), l)
              out == <<nrow, ncol, nz, 3, Npts>>
          IN  IF vlen < 0 \/ ~CanAssign(vlen, Npts) THEN Raise("ValueError")
              \* k3 runs over range(3) whatever the fourth axis holds
              ELSE IF shp[4] < 3 THEN Raise("IndexError")
              ELSE Ok(Array(out,
                      [k \in 1..Prod(out) |->
                          LET idx == Unravel(k - 1, out)
                          IN  Assigned(RayCell(Rays_SP, Rays_SLV, basespace, stepSize,
                                               SubSeq(idx, 1, 4), l), Npts)[idx[5] + 1]]))

(***************************************************************************)
(* Inputs of the ray samplers                                              *)
(***************************************************************************)
\* max_len and stepSize: positive floats of two and one binades
StepSizes == {Float(m, 1 - Prec) : m \in Pow2(Prec - 1)..(Pow2(Prec) - 1)}
MaxLens == {Float(m, e) : m \in Pow2(Prec - 1)..(Pow2(Prec) - 1), e \in {1 - Prec, 2 - Prec}}

\* grids of ground pixels of one to four axes
GridShapes ==
    {s \in UNION {[1..r -> 1..MaxDim] : r \in 1..4} : Prod(s) <= MaxDim}

\* the array of a shape whose buffer follows a pattern
Pattern(shape, a, b) ==
    Array(shape, [n \in 1..Prod(shape) |-> ((a * n + b) % 5) - 2])

RayArgs ==
    {[max_len |-> x, stepSize |-> y,
      Rays_SP |-> Pattern(g \o <<3>>, 1, b),
      Rays_SLV |-> Pattern(g \o <<3>>, 2, c),
      pixel |-> <<>>] :
        x \in MaxLens, y \in StepSizes, g \in GridShapes, b \in {0}, c \in {1}}

Grid(a) == SubSeq(a.shape, 1, Len(a.shape) - 1)

\* a mapping with no keys
EmptyFn == [k \in {} |-> 0]

\* the file system at the output path: whether the parent directory exists,
\* and the HDF5 file at the path
NoFile == [exists |-> FALSE, dsets |-> EmptyFn, attrs |-> EmptyFn]
Idle == [dir |-> FALSE, file |-> NoFile]

InitRay ==
    /\ op = "none"
    /\ args \in RayArgs
    /\ ret = Pending
    /\ pc = "idle"
    /\ fs = Idle
    /\ exc = "none"

CallMakePoints1D ==
    /\ op = "none"
    /\ \E p \in Indices(Grid(args.Rays_SP)) :
          /\ args' = [args EXCEPT !.pixel = p]
          /\ ret' = makePoints1D(args.max_len, Sub(args.Rays_SP, p),
                                 Sub(args.Rays_SLV, p), args.stepSize)
    /\ op' = "makePoints1D"
    /\ UNCHANGED <<pc, fs, exc>>

CallMakePoints3D ==
    /\ op = "none"
    /\ ret' = makePoints3D(args.max_len, args.Rays_SP, args.Rays_SLV, args.stepSize)
    /\ op' = "makePoints3D"
    /\ UNCHANGED <<args, pc, fs, exc>>

NextRay == CallMakePoints1D \/ CallMakePoints3D

SpecRay == InitRay /\ [][NextRay]_vars

(***************************************************************************)
(* Claims about the ray samplers                                           *)
(***************************************************************************)
\* what makePoints1D returns for pixel p of the batch
Single(p) ==
    makePoints1D(args.max_len, Sub(args.Rays_SP, p), Sub(args.Rays_SLV, p),
                 args.stepSize)

\* the batch holds, for every pixel, the single-ray result, in an array of
\* shape grid-shape + (3, sample-count)
BatchEqualsSingle ==
    /\ ret.err = "ok"
    /\ ret.val.shape = Grid(args.Rays_SP) \o <<3, NptsOf(args.max_len, args.stepSize)>>
    /\ \A p \in Indices(Grid(args.Rays_SP)) : Sub(ret.val, p) = Single(p).val

\* C1 as stated: for a grid of any number of axes, makePoints3D returns
\* the array of shape grid-shape + (3, sample-count) whose entry for each pixel
\* is what makePoints1D returns for that pixel's own start and direction.
\* (Stated for the inputs on which makePoints1D returns.)
C1_AnyGridBatchEqualsSingle ==
    (/\ op = "makePoints3D"
     /\ \A p \in Indices(Grid(args.Rays_SP)) : Single(p).err = "ok")
        => BatchEqualsSingle

\* C1 amended: for a grid of exactly three axes (Nx x Ny x Nz), makePoints3D
\* has for each pixel the outcome of makePoints1D on that pixel's own start
\* and direction: the same array entries in shape grid-shape + (3, sample-count)
\* when makePoints1D returns, and an error when makePoints1D raises one.
C1_Grid3DBatchEqualsSingle ==
    (op = "makePoints3D" /\ Len(Grid(args.Rays_SP)) = 3) =>
        IF \A p \in Indices(Grid(args.Rays_SP)) : Single(p).err = "ok"
        THEN BatchEqualsSingle
        ELSE \A p \in Indices(Grid(args.Rays_SP)) : ret.err = Single(p).err

\* a batch of several pixels and several samples has been computed
C1_Witness ==
    /\ op = "makePoints3D"
    /\ Len(Grid(args.Rays_SP)) = 3
    /\ Prod(Grid(args.Rays_SP)) >= 2
    /\ ret.err = "ok"
    /\ ret.val.shape[5] >= 3

\* the number of terms of 0, stepSize, 2*stepSize, ... strictly below max_len,
\* in exact arithmetic
TermsBelow(max_len, stepSize) ==
    Cardinality({k \in 0..(Num(max_len) * Den(stepSize)) :
                    k * Num(stepSize) * Den(max_len) < Num(max_len) * Den(stepSize)})

\* floor(maxLen/stepSize) + (1 if maxLen mod stepSize != 0 else 0), in exact
\* arithmetic
CountFormula(max_len, stepSize) ==
    LET a == Num(max_len) * Den(stepSize)
        b == Num(stepSize) * Den(max_len)
    IN  (a \div b) + (IF a % b # 0 THEN 1 ELSE 0)

\* C2: the number of samples allocated and returned by makePoints1D is
\* floor(maxLen/stepSize) + (1 if maxLen mod stepSize != 0 else 0), which is the
\* number of terms of 0, stepSize, 2*stepSize, ... strictly below maxLen, so
\* the buffer and the progression have the same length; the last sample's
\* offset is strictly below maxLen.
C2_SampleCount ==
    op = "makePoints1D" =>
        LET Npts == NptsOf(args.max_len, args.stepSize)
            basespace == Basespace(args.max_len, args.stepSize)
        IN  /\ Npts = CountFormula(args.max_len, args.stepSize)
            /\ Npts = TermsBelow(args.max_len, args.stepSize)
            /\ Len(basespace) = Npts
            /\ ret.err = "ok"
            /\ ret.val.shape = <<3, Npts>>
            /\ basespace[Len(basespace)] * Den(args.max_len)
                   < Num(args.max_len) * Den(args.stepSize)

\* C3: sample k of the ray makePoints1D returns is start + k*stepSize*direction
\* in each component, for k from 0 to sample-count - 1; sample 0 is start and
\* consecutive samples differ by stepSize*direction.
C3_SamplePositions ==
    op = "makePoints1D" =>
        LET sp == Sub(args.Rays_SP, args.pixel)
            slv == Sub(args.Rays_SLV, args.pixel)
            d == Den(args.stepSize)
            step == Num(args.stepSize)
        IN  /\ ret.err = "ok"
            /\ ret.val.shape = <<3, CountFormula(args.max_len, args.stepSize)>>
            /\ \A c \in 0..2 :
                  /\ At(ret.val, <<c, 0>>) = At(sp, <<c>>) * d
                  /\ \A k \in 0..(ret.val.shape[2] - 1) :
                        At(ret.val, <<c, k>>) = At(sp, <<c>>) * d + k * step * At(slv, <<c>>)
                  /\ \A k \in 1..(ret.val.shape[2] - 1) :
                        At(ret.val, <<c, k>>) - At(ret.val, <<c, k - 1>>)
                            = step * At(slv, <<c>>)

\* the sample positions of every ray that makePoints1D does return
SamplesOfReturnedRay ==
    (op = "makePoints1D" /\ ret.err = "ok") =>
        LET sp == Sub(args.Rays_SP, args.pixel)
            slv == Sub(args.Rays_SLV, args.pixel)
        IN  \A c \in 0..2 : \A k \in 0..(ret.val.shape[2] - 1) :
                At(ret.val, <<c, k>>)
                    = At(sp, <<c>>) * Den(args.stepSize)
                      + k * Num(args.stepSize) * At(slv, <<c>>)

\* the buffer and the progression differ in length only by the rounding of
\* max_len/stepSize down to an integer
LengthsDifferOnlyByRounding ==
    LET Npts == NptsOf(args.max_len, args.stepSize)
    IN  /\ Npts = TermsBelow(args.max_len, args.stepSize)
        /\ Npts = CountFormula(args.max_len, args.stepSize)
        /\ ArangeLen(args.max_len, args.stepSize) \in {Npts, Npts - 1}

(***************************************************************************)
(* The validators                                                          *)
(***************************************************************************)
\* RAiDER.constants.Zenith: a sentinel compared by identity, not an array
Zenith == [kind |-> "Zenith", shape |-> <<>>, flat |-> <<>>]
\* Python's None
None == NoValue

\* los.shape[:-1]
AllButLast(shape) == SubSeq(shape, 1, Len(shape) - 1)

checkShapes(los, lats, lons, hts) ==
    LET los1 == IF los = None THEN Zenith ELSE los
        test1 == hts.shape = lats.shape /\ lats.shape = lons.shape
        test2 == IF los1.kind = "array"
                 THEN AllButLast(los1.shape) = hts.shape
                 \* except AttributeError
                 ELSE los1 = Zenith
    IN  \* if not test1 and test2
        IF (~test1) /\ test2 THEN Raise("ValueError") ELSE Ok(None)

\* los.reshape(-1, 3) of a C-contiguous array: the same buffer in rows of 3
Reshape3(a) == Array(<<Prod(a.shape) \div 3, 3>>, a.flat)

checkLOS_leadingAxis(los, Npts) ==
    IF los = Zenith THEN Ok(los)
    ELSE IF los.kind # "array" THEN Raise("AttributeError")
    ELSE IF Prod(los.shape) % 3 # 0 THEN Raise("ValueError")
    ELSE IF los.shape[1] # Npts THEN Raise("RuntimeError")
    ELSE Ok(Reshape3(los))

checkLOS(los, Npts) ==
    IF los = Zenith THEN Ok(los)
    \* None has no reshape
    ELSE IF los.kind # "array" THEN Raise("AttributeError")
    \* reshape(-1, 3) of a size that 3 does not divide
    ELSE IF Prod(los.shape) % 3 # 0 THEN Raise("ValueError")
    ELSE IF Reshape3(los).shape[1] # Npts THEN Raise("RuntimeError")
    ELSE Ok(Reshape3(los))

(***************************************************************************)
(* Inputs of the validators                                                *)
(***************************************************************************)
\* largest extent of an axis of the ground-point arrays
GeomDim == 2

PointShapes == UNION {[1..r -> 1..GeomDim] : r \in 1..2}

\* line-of-sight arrays: one 3-vector per pixel in the pixels' shape or as
\* rows, the same flattened, and arrays without a trailing axis of 3
LosShapes ==
    UNION {{s \o <<3>>, s, <<Prod(s), 3>>, <<3, Prod(s)>>, <<3 * Prod(s)>>} :
              s \in PointShapes}

LosValues == {Zenith, None} \cup {Pattern(s, 1, 0) : s \in LosShapes}

GeomArgs ==
    {[los |-> l, lats |-> Pattern(a, 1, 0), lons |-> Pattern(b, 1, 1),
      hts |-> Pattern(c, 1, 2), Npts |-> 0] :
        l \in LosValues, a \in PointShapes, b \in PointShapes, c \in PointShapes}

InitGeom ==
    /\ op = "none"
    /\ args \in GeomArgs
    /\ ret = Pending
    /\ pc = "idle"
    /\ fs = Idle
    /\ exc = "none"

CallCheckShapes ==
    /\ op = "none"
    /\ ret' = checkShapes(args.los, args.lats, args.lons, args.hts)
    /\ op' = "checkShapes"
    /\ UNCHANGED <<args, pc, fs, exc>>

CallCheckLOS ==
    /\ op = "none"
    /\ \E n \in 1..(GeomDim * GeomDim) :
          /\ args' = [args EXCEPT !.Npts = n]
          /\ ret' = checkLOS(args.los, n)
    /\ op' = "checkLOS"
    /\ UNCHANGED <<pc, fs, exc>>

NextGeom == CallCheckShapes \/ CallCheckLOS

SpecGeom == InitGeom /\ [][NextGeom]_vars

(***************************************************************************)
(* Claims about the validators                                             *)
(***************************************************************************)
PointShapesAgree ==
    args.lats.shape = args.lons.shape /\ args.lons.shape = args.hts.shape

LosShapeAgrees ==
    \/ args.los = Zenith
    \/ args.los = None
    \/ args.los.kind = "array" /\ AllButLast(args.los.shape) = args.hts.shape

\* C4: checkShapes fails with a shape-mismatch error whenever lats, lons and
\* hts do not all have one shape, and whenever los is an array whose shape
\* without its trailing axis differs from hts.shape; it returns silently
\* exactly when both conditions hold.
C4_CheckShapesRejectsMismatch ==
    op = "checkShapes" =>
        /\ (ret.err = "ok") <=> (PointShapesAgree /\ LosShapeAgrees)
        /\ (ret.err = "ValueError") <=> ~(PointShapesAgree /\ LosShapeAgrees)

\* what checkShapes does instead: it fails exactly when the point shapes
\* disagree and the line of sight agrees with hts
CheckShapesAsWritten ==
    op = "checkShapes" =>
        ((ret.err = "ValueError") <=> (~PointShapesAgree /\ LosShapeAgrees))

LosIsArray == args.los.kind = "array"
LosSize == Prod(args.los.shape)

sind(x) == x[2]
cosd(x) == x[1]

Longitudes ==
    {<<5, 0>>, <<4, 3>>, <<3, 4>>, <<0, 5>>, <<-3, 4>>, <<-4, 3>>,
     <<-5, 0>>, <<-4, -3>>, <<-3, -4>>, <<0, -5>>, <<3, -4>>, <<4, -3>>}
Latitudes == {x \in Longitudes : cosd(x) >= 0}

\* pyproj's latlong -> geocent transform, on a sphere of radius 2 in place of
\* the ellipsoid
lla2ecef(lat, lon, height) ==
    <<(2 + height) * cosd(lat) * cosd(lon),
      (2 + height) * cosd(lat) * sind(lon),
      (2 + height) * sind(lat) * 5>>

enu2ecef_swappedOrigin(east, north, up, lat0, lon0, h0) ==
    LET o == lla2ecef(lon0, lat0, h0)
        t == cosd(lat0) * up - sind(lat0) * north
        w == sind(lat0) * up + cosd(lat0) * north
        u == cosd(lon0) * t - sind(lon0) * (5 * east)
        v == sind(lon0) * t + cosd(lon0) * (5 * east)
    IN  Ok(Array(<<3>>, <<o[1] + u, o[2] + v, o[3] + 5 * w>>))

enu2ecef(east, north, up, lat0, lon0, h0) ==
    LET o == lla2ecef(lat0, lon0, h0)
        \* t, w in units of 1/5
        t == cosd(lat0) * up - sind(lat0) * north
        w == sind(lat0) * up + cosd(lat0) * north
        \* u, v in units of 1/25
        u == cosd(lon0) * t - sind(lon0) * (5 * east)
        v == sind(lon0) * t + cosd(lon0) * (5 * east)
    IN  \* np.stack((x0 + u, y0 + v, z0 + w))
        Ok(Array(<<3>>, <<o[1] + u, o[2] + v, o[3] + 5 * w>>))

\* largest east, north, up offset and height
EnuMax == 1

EnuArgs ==
    {[east |-> e, north |-> n, up |-> u, lat0 |-> la, lon0 |-> lo, h0 |-> h] :
        e \in (-EnuMax)..EnuMax, n \in (-EnuMax)..EnuMax, u \in (-EnuMax)..EnuMax,
        la \in Latitudes, lo \in Longitudes, h \in 0..EnuMax}

InitEnu ==
    /\ op = "none"
    /\ args \in EnuArgs
    /\ ret = Pending
    /\ pc = "idle"
    /\ fs = Idle
    /\ exc = "none"

CallEnu2ecef ==
    /\ op = "none"
    /\ ret' = enu2ecef(args.east, args.north, args.up, args.lat0, args.lon0, args.h0)
    /\ op' = "enu2ecef"
    /\ UNCHANGED <<args, pc, fs, exc>>

CallLla2ecef ==
    /\ op = "none"
    /\ ret' = Ok(Array(<<3>>, lla2ecef(args.lat0, args.lon0, args.h0)))
    /\ op' = "lla2ecef"
    /\ UNCHANGED <<args, pc, fs, exc>>

NextEnu == CallEnu2ecef \/ CallLla2ecef

SpecEnu == InitEnu /\ [][NextEnu]_vars

\* C9: enu2ecef(0, 0, 0, lat0, lon0, h0) is lla2ecef(lat0, lon0, h0) component
\* by component, whatever the sines and cosines of lat0 and lon0.
C9_ZeroOffsetIdentity ==
    (op = "enu2ecef" /\ args.east = 0 /\ args.north = 0 /\ args.up = 0) =>
        /\ ret.err = "ok"
        /\ ret.val.shape = <<3>>
        /\ \A c \in 1..3 :
              ret.val.flat[c] = lla2ecef(args.lat0, args.lon0, args.h0)[c]

\* the zero offset was rotated at an origin whose sines and cosines are all
\* non-zero
C9_Witness ==
    /\ op = "enu2ecef"
    /\ args.east = 0 /\ args.north = 0 /\ args.up = 0
    /\ sind(args.lat0) # 0 /\ cosd(args.lat0) # 0
    /\ sind(args.lon0) < 0 /\ cosd(args.lon0) # 0
    /\ ret.err = "ok"

(***************************************************************************)
(* writePnts2HDF5, statement by statement.  pc is the statement to run     *)
(* next; fs.file is what the HDF5 file at outName holds (an exception      *)
(* leaves the with block, which closes the file with what was written).    *)
(* lats, lons and hgts share one shape, as the callers guarantee.          *)
(***************************************************************************)
epsg == 4326
projname == "projection"

\* largest extent of an axis of the ground-point arrays written
WriteDim == 4

Dataset(shape, chunks, data) ==
    [shape |-> shape, chunks |-> chunks, data |-> data, attrs |-> EmptyFn]

\* h5py accepts a chunk shape of the dataset's rank that no axis exceeds
ChunksFit(shape, chunks) ==
    /\ Len(chunks) = Len(shape)
    /\ \A i \in 1..Len(shape) : chunks[i] <= shape[i]

\* chunks=True: h5py guesses the chunk shape, the whole shape for small data
AutoChunk(shape) == shape

\* f.create_dataset(name, shape, chunks=chunks), data or no data
create_dataset(file, name, shape, chunks, data) ==
    IF ChunksFit(shape, chunks)
    THEN [err |-> "ok",
          file |-> [file EXCEPT !.dsets = (name :> Dataset(shape, chunks, data)) @@ @]]
    ELSE [err |-> "ValueError", file |-> file]

SetAttr(file, name, value) ==
    [file EXCEPT !.attrs = (name :> value) @@ @]

SetDsetAttr(file, ds, name, value) ==
    [file EXCEPT !.dsets[ds].attrs = (name :> value) @@ @]

\* a file already at outName before the call
OldFile ==
    [exists |-> TRUE,
     dsets |-> ("old" :> Dataset(<<1>>, <<1>>, <<0>>)),
     attrs |-> ("DelayType" :> "Zenith")]

\* h5py.File(outName, 'w') truncates
NewFile == [exists |-> TRUE, dsets |-> EmptyFn, attrs |-> EmptyFn]

NoChunkSize == [given |-> FALSE, shape |-> <<>>]
ChunkSize(t) == [given |-> TRUE, shape |-> t]

WriteShapes == UNION {[1..r -> 1..WriteDim] : r \in 1..2}

Reversed(t) == [i \in 1..Len(t) |-> t[Len(t) + 1 - i]]

\* the lines of sight given for ground points of shape s
WriteLos(s) ==
    {Zenith} \cup
    {Pattern(t, 1, 0) :
        t \in {s \o <<3>>, Reversed(s) \o <<3>>, <<Prod(s), 3>>, <<3 * Prod(s)>>,
               <<Prod(s) + 1, 3>>, <<Prod(s)>>}}

WriteArgs ==
    UNION {{[lats |-> Pattern(s, 1, 0), lons |-> Pattern(s, 1, 1),
             hgts |-> Pattern(s, 1, 2), los |-> l, chunkSize |-> c, fs0 |-> f] :
               l \in WriteLos(s),
               c \in {NoChunkSize} \cup {ChunkSize(t) : t \in WriteShapes},
               f \in {[dir |-> FALSE, file |-> NoFile], [dir |-> TRUE, file |-> NoFile],
                      [dir |-> TRUE, file |-> OldFile]}} :
           s \in WriteShapes}

InitWrite ==
    /\ op = "writePnts2HDF5"
    /\ args \in WriteArgs
    /\ ret = Pending
    /\ pc = "checkLOS"
    /\ fs = args.fs0
    /\ exc = "none"

\* an exception leaves the function
Fail(e) ==
    /\ pc' = "done"
    /\ exc' = e
    /\ UNCHANGED <<op, args, ret, fs>>

\* an exception leaves the function after part of a statement wrote f
FailHolding(e, f) ==
    /\ pc' = "done"
    /\ exc' = e
    /\ fs' = [fs EXCEPT !.file = f]
    /\ UNCHANGED <<op, args, ret>>

\* the statement wrote f and control moves on
Goto(label, f) ==
    /\ pc' = label
    /\ fs' = [fs EXCEPT !.file = f]
    /\ UNCHANGED <<op, args, ret, exc>>

in_shape == args.lats.shape

\* checkLOS(los, np.prod(lats.shape)), the result dropped
CheckLOSStep_afterMakedirs ==
    /\ pc = "checkLOS"
    /\ LET r == checkLOS(args.los, Prod(args.lats.shape))
       IN  IF r.err = "ok"
           THEN /\ pc' = "open"
                /\ fs' = [fs EXCEPT !.dir = TRUE]
                /\ UNCHANGED <<op, args, ret, exc>>
           ELSE /\ pc' = "done"
                /\ exc' = r.err
                /\ fs' = [fs EXCEPT !.dir = TRUE]
                /\ UNCHANGED <<op, args, ret>>

CheckLOSStep ==
    /\ pc = "checkLOS"
    /\ LET r == checkLOS(args.los, Prod(args.lats.shape))
       IN  IF r.err = "ok"
           THEN /\ pc' = "makedirs"
                /\ UNCHANGED <<op, args, ret, fs, exc>>
           ELSE Fail(r.err)

\* os.makedirs(..., exist_ok=True): creates the directory, or fails
MakeDirs ==
    /\ pc = "makedirs"
    /\ \/ /\ pc' = "open"
          /\ fs' = [fs EXCEPT !.dir = TRUE]
          /\ UNCHANGED <<op, args, ret, exc>>
       \/ /\ ~fs.dir
          /\ Fail("OSError")

\* with h5py.File(outName, 'w') as f: truncates the file, or fails to open it
OpenFile ==
    /\ pc = "open"
    /\ \/ Goto("Conventions", NewFile)
       \/ Fail("OSError")

WriteConventions ==
    /\ pc = "Conventions"
    /\ Goto("lon", SetAttr(fs.file, "Conventions", "CF-1.8"))

CreateLon ==
    /\ pc = "lon"
    /\ LET chunks == IF args.chunkSize.given THEN args.chunkSize.shape
                     ELSE AutoChunk(args.lons.shape)
           r == create_dataset(fs.file, "lon", args.lons.shape, chunks, args.lons.flat)
       IN  IF r.err = "ok" THEN Goto("lat", r.file) ELSE Fail(r.err)

CreateLat ==
    /\ pc = "lat"
    /\ LET r == create_dataset(fs.file, "lat", args.lats.shape,
                               fs.file.dsets["lon"].chunks, args.lats.flat)
       IN  IF r.err = "ok" THEN Goto("hgt", r.file) ELSE Fail(r.err)

CreateHgt ==
    /\ pc = "hgt"
    /\ LET r == create_dataset(fs.file, "hgt", args.hgts.shape,
                               fs.file.dsets["lon"].chunks, args.hgts.flat)
       IN  IF r.err = "ok" THEN Goto("LOS", r.file) ELSE Fail(r.err)

\* los.astype(np.float64): Zenith is no array; the array keeps the shape it
\* was given in
CreateLOS ==
    /\ pc = "LOS"
    /\ IF args.los.kind # "array" THEN Fail("AttributeError")
       ELSE LET r == create_dataset(fs.file, "LOS", args.los.shape,
                                    fs.file.dsets["lon"].chunks \o <<3>>, args.los.flat)
            IN  IF r.err = "ok" THEN Goto("Shape", r.file) ELSE Fail(r.err)

WriteShapeAttrs ==
    /\ pc = "Shape"
    /\ Goto("ChunkSize",
            SetDsetAttr(SetDsetAttr(SetDsetAttr(fs.file,
                "lon", "Shape", in_shape), "lat", "Shape", in_shape),
                "hgt", "Shape", in_shape))

\* f.attrs['ChunkSize'] = chunkSize: h5py has no type for None
WriteChunkSizeAttr ==
    /\ pc = "ChunkSize"
    /\ IF ~args.chunkSize.given THEN Fail("TypeError")
       ELSE Goto("projection", SetAttr(fs.file, "ChunkSize", args.chunkSize.shape))

WriteProjection ==
    /\ pc = "projection"
    /\ LET f1 == [fs.file EXCEPT
                     !.dsets = (projname :> Dataset(<<>>, <<>>, <<epsg>>)) @@ @]
           f2 == SetDsetAttr(f1, projname, "semi_major_axis", "6378137.0")
           f3 == SetDsetAttr(f2, projname, "inverse_flattening", "298.257223563")
           f4 == SetDsetAttr(f3, projname, "ellipsoid", "WGS84")
           f5 == SetDsetAttr(f4, projname, "epsg_code", epsg)
           f6 == SetDsetAttr(f5, projname, "spatial_ref", "WKT")
       IN  Goto("grid_mapping", f6)

WriteGridMapping ==
    /\ pc = "grid_mapping"
    /\ IF epsg = 4326
       THEN LET f1 == SetDsetAttr(fs.file, projname, "grid_mapping_name",
                                  "latitude_longitude")
                f2 == SetDsetAttr(f1, projname, "longitude_of_prime_meridian", "0.0")
                f3 == SetDsetAttr(f2, "lon", "standard_name", "longitude")
                f4 == SetDsetAttr(f3, "lon", "units", "degrees_east")
                f5 == SetDsetAttr(f4, "lat", "standard_name", "latitude")
                f6 == SetDsetAttr(f5, "lat", "units", "degrees_north")
                f7 == SetDsetAttr(f6, "hgt", "standard_name", "height")
                f8 == SetDsetAttr(f7, "hgt", "units", "m")
            IN  Goto("Rays", f8)
       \* raise NotImplemented
       ELSE Fail("TypeError")

CreateRays ==
    /\ pc = "Rays"
    /\ LET r1 == create_dataset(fs.file, "Rays_SP", in_shape \o <<3>>,
                                fs.file.dsets["LOS"].chunks, <<>>)
           r2 == create_dataset(r1.file, "Rays_len", in_shape,
                                fs.file.dsets["lon"].chunks, <<>>)
           r3 == create_dataset(r2.file, "Rays_SLV", in_shape \o <<3>>,
                                fs.file.dsets["LOS"].chunks, <<>>)
       IN  IF r1.err # "ok" THEN Fail(r1.err)
           ELSE IF r2.err # "ok" THEN FailHolding(r2.err, r1.file)
           ELSE IF r3.err # "ok" THEN FailHolding(r3.err, r2.file)
           ELSE Goto("grid_mapping_attrs", r3.file)

WriteRaysAttrs ==
    /\ pc = "grid_mapping_attrs"
    /\ Goto("NumRays",
            SetDsetAttr(SetDsetAttr(SetDsetAttr(SetDsetAttr(fs.file,
                "LOS", "grid_mapping", projname),
                "Rays_SP", "grid_mapping", projname),
                "Rays_len", "grid_mapping", projname),
                "Rays_SLV", "grid_mapping", projname))

\* f.attrs['NumRays'] = len(x), and the with block closes the file
WriteNumRays ==
    /\ pc = "NumRays"
    /\ pc' = "done"
    /\ fs' = [fs EXCEPT !.file = SetAttr(fs.file, "NumRays", fs.file.dsets["lon"].shape[1])]
    /\ UNCHANGED <<op, args, ret, exc>>

NextWrite ==
    \/ CheckLOSStep
    \/ MakeDirs
    \/ OpenFile
    \/ WriteConventions
    \/ CreateLon
    \/ CreateLat
    \/ CreateHgt
    \/ CreateLOS
    \/ WriteShapeAttrs
    \/ WriteChunkSizeAttr
    \/ WriteProjection
    \/ WriteGridMapping
    \/ CreateRays
    \/ WriteRaysAttrs
    \/ WriteNumRays

SpecWrite == InitWrite /\ [][NextWrite]_vars

(***************************************************************************)
(* Claims about writePnts2HDF5                                             *)
(***************************************************************************)
HasAttrs(file, ds, names) ==
    ds \in DOMAIN file.dsets /\ DOMAIN file.dsets[ds].attrs = names

\* every dataset and attribute of the schema is in the file
CompleteDataset(file) ==
    /\ file.exists
    /\ DOMAIN file.dsets =
          {"lon", "lat", "hgt", "LOS", "Rays_SP", "Rays_len", "Rays_SLV", projname}
    /\ DOMAIN file.attrs = {"Conventions", "ChunkSize", "NumRays"}
    /\ \A ds \in {"lon", "lat", "hgt"} :
          HasAttrs(file, ds, {"Shape", "standard_name", "units"})
    /\ \A ds \in {"LOS", "Rays_SP", "Rays_len", "Rays_SLV"} :
          HasAttrs(file, ds, {"grid_mapping"})
    /\ HasAttrs(file, projname,
                {"semi_major_axis", "inverse_flattening", "ellipsoid", "epsg_code",
                 "spatial_ref", "grid_mapping_name", "longitude_of_prime_meridian"})

\* a call that returns leaves the complete dataset
ReturnLeavesCompleteDataset ==
    (pc = "done" /\ exc = "none") => CompleteDataset(fs.file)

\* C6: writePnts2HDF5 is all-or-nothing: after the call, failed at any step
\* or not, the file at the target path is a complete dataset or is unchanged
\* from before the call.
C6_AllOrNothing ==
    pc = "done" => (fs.file = args.fs0.file \/ CompleteDataset(fs.file))

\* the line of sight passes validation: Zenith, or one 3-vector per pixel
LosPassesValidation ==
    \/ args.los = Zenith
    \/ args.los.kind = "array" /\ Prod(args.los.shape) = 3 * Prod(in_shape)

ShapeOf(ds) == fs.file.dsets[ds].shape

\* C7: for every pixel-shape and every line of sight that passes validation,
\* the call with chunkSize omitted completes (the file system permitting) and
\* the dataset has lon, lat, hgt and Rays_len of shape pixel-shape, LOS,
\* Rays_SP and Rays_SLV of shape pixel-shape + (3,), lat/lon/hgt equal to the
\* inputs and the scalar projection equal to 4326.
C7_WriteWithoutChunkSize ==
    (pc = "done" /\ exc # "OSError" /\ LosPassesValidation /\ ~args.chunkSize.given) =>
        /\ exc = "none"
        /\ DOMAIN fs.file.dsets =
              {"lon", "lat", "hgt", "LOS", "Rays_SP", "Rays_len", "Rays_SLV", projname}
        /\ \A ds \in {"lon", "lat", "hgt", "Rays_len"} : ShapeOf(ds) = in_shape
        /\ \A ds \in {"LOS", "Rays_SP", "Rays_SLV"} : ShapeOf(ds) = in_shape \o <<3>>
        /\ fs.file.dsets["lon"].data = args.lons.flat
        /\ fs.file.dsets["lat"].data = args.lats.flat
        /\ fs.file.dsets["hgt"].data = args.hgts.flat
        /\ ShapeOf(projname) = <<>>
        /\ fs.file.dsets[projname].data = <<4326>>

\* without a chunkSize no call returns
NoReturnWithoutChunkSize ==
    (pc = "done" /\ ~args.chunkSize.given) => exc # "none"

\* C8: after every call that returns, NumRays is the number of ground
\* pixels, the product of the dimensions of the lat/lon/height shape.
C8_NumRaysIsPixelCount ==
    (pc = "done" /\ exc = "none") =>
        fs.file.attrs["NumRays"] = Prod(in_shape)

\* what is written: the extent of the first axis
NumRaysIsFirstAxis ==
    (pc = "done" /\ exc = "none") =>
        fs.file.attrs["NumRays"] = in_shape[1]

\* the reshaped line of sight has another number of rows than there are pixels
LosCountMismatch ==
    /\ args.los.kind = "array"
    /\ Prod(args.los.shape) % 3 = 0
    /\ Prod(args.los.shape) \div 3 # Prod(in_shape)

\* C10: validation of the line of sight comes before every effect on the file
\* system: when the row count differs from the pixel count the count-mismatch
\* error leaves the call at its first statement, the parent directory not
\* created and a file at the target path not truncated or modified.
C10_ValidationBeforeEffects ==
    /\ (LosCountMismatch /\ pc # "checkLOS") =>
          pc = "done" /\ exc = "RuntimeError"
    /\ (LosCountMismatch \/ exc = "RuntimeError") => fs = args.fs0

\* a call with a count mismatch has failed where a directory was missing
C10_Witness ==
    /\ pc = "done"
    /\ exc = "RuntimeError"
    /\ LosCountMismatch
    /\ ~args.fs0.dir
    /\ ~fs.dir

====
